---- MODULE Spec2Model ----
(***************************************************************************)
(* A model of hydra-slurm-launcher: the SlurmQueueConf resource spec, the   *)
(* script compiler (generate_slurm_script, generate_array_script), the      *)
(* submission client (submit_job), the array dispatch engine                *)
(* (submit_job_array), the SlurmLauncher entry points, and the scheduler    *)
(* side that dispatches the members of a submitted array.                   *)
(***************************************************************************)
EXTENDS Integers, Sequences, FiniteSets, TLC

(***************************************************************************)
(* Bounds of the model.                                                    *)
(***************************************************************************)
\* the largest number of tasks in one batch
MaxTasks == 2
\* the number of launch / submit_job_array calls in one behaviour
MaxLaunches == 2

(***************************************************************************)
(* Python values.  Every scalar is a record of one shape so that values of  *)
(* different Python types can be compared.                                  *)
(***************************************************************************)
None == [t |-> "none", i |-> 0, s |-> ""]
IntV(n) == [t |-> "int", i |-> n, s |-> ""]
StrV(x) == [t |-> "str", i |-> 0, s |-> x]
BoolV(b) == [t |-> "bool", i |-> IF b THEN 1 ELSE 0, s |-> ""]

\* str(value) / f"{value}"
PyStr(v) ==
    CASE v.t = "none" -> "None"
      [] v.t = "int" -> ToString(v.i)
      [] v.t = "str" -> v.s
      [] v.t = "bool" -> IF v.i = 1 THEN "True" ELSE "False"

\* truthiness of a scalar, as in `if job_id` / `if array_job_id`
Truthy(v) ==
    CASE v.t = "none" -> FALSE
      [] v.t = "int" -> v.i # 0
      [] v.t = "str" -> v.s # ""
      [] v.t = "bool" -> v.i = 1

(***************************************************************************)
(* Ordered dicts (insertion ordered, as Python's dict): a sequence of       *)
(* [k, v] entries with distinct keys.                                       *)
(***************************************************************************)
DictHas(d, k) == \E n \in 1..Len(d) : d[n].k = k

\* d[k] = v: an existing key keeps its position, a new key goes last
DictSet(d, k, v) ==
    IF DictHas(d, k)
    THEN [n \in 1..Len(d) |-> IF d[n].k = k THEN [k |-> k, v |-> v] ELSE d[n]]
    ELSE Append(d, [k |-> k, v |-> v])

RECURSIVE DictUpdate(_, _)
\* d.update(other)
DictUpdate(d, other) ==
    IF other = <<>> THEN d
    ELSE DictUpdate(DictSet(d, other[1].k, other[1].v), Tail(other))

(***************************************************************************)
(* SlurmQueueConf                                                          *)
(***************************************************************************)
\* the dataclass fields in declaration order: the order of vars(config)
ConfigFields ==
    << "_target_", "partition", "job_name", "job_array_name", "nodes",
       "ntasks", "ntasks_per_node", "cpus_per_task", "mem", "time", "gres",
       "gpus", "account", "qos", "begin", "mail_type", "mail_user",
       "additional", "setup" >>

\* SlurmQueueConf(): every field at its default
DefaultConf ==
    [ _target_ |-> StrV("hydra_plugins.hydra_slurm_launcher.slurmlauncher.SlurmLauncher"),
      partition |-> StrV("default"),
      job_name |-> None,
      job_array_name |-> None,
      nodes |-> None,
      ntasks |-> None,
      ntasks_per_node |-> None,
      cpus_per_task |-> None,
      mem |-> None,
      time |-> None,
      gres |-> None,
      gpus |-> None,
      account |-> None,
      qos |-> None,
      begin |-> None,
      mail_type |-> None,
      mail_user |-> None,
      additional |-> <<>>,
      setup |-> <<>> ]

\* __post_init__ raises ValueError
PostInitRaises(c) ==
    \/ c.gpus # None /\ c.gres # None
    \/ c.job_name # None /\ c.job_array_name # None

\* __post_init__ on a config it accepts
PostInit(c) ==
    IF c.gpus # None
    THEN [c EXCEPT !.gres = StrV("gpu:" \o PyStr(c.gpus))]
    ELSE c

(***************************************************************************)
(* Script lines.  A line is kept in parsed form: an #SBATCH directive with  *)
(* its flag name and value, a plain text line, or the runtime lookup stage  *)
(* of an array script with the descriptor store it reads.                   *)
(***************************************************************************)
TextLine(x) == [kind |-> "text", key |-> "", value |-> x]
SbatchValue(k, x) == [kind |-> "sbatch", key |-> k, value |-> x]
SbatchBare(k) == [kind |-> "sbatch_flag", key |-> k, value |-> ""]
LookupStage(config_file) == [kind |-> "lookup", key |-> "", value |-> config_file]

\* key.replace("_", "-") on the keys that occur
Hyphenated ==
    [ partition |-> "partition", job_name |-> "job-name", nodes |-> "nodes",
      ntasks |-> "ntasks", ntasks_per_node |-> "ntasks-per-node",
      cpus_per_task |-> "cpus-per-task", mem |-> "mem", time |-> "time",
      gres |-> "gres", gpus |-> "gpus", account |-> "account", qos |-> "qos",
      begin |-> "begin", mail_type |-> "mail-type", mail_user |-> "mail-user",
      output |-> "output", error |-> "error", array |-> "array",
      constraint |-> "constraint", exclusive |-> "exclusive" ]

\* the strings of the model holding a character outside shlex's safe set
Unsafe == {"a100|v100"}

\* shlex.quote
ShlexQuote(x) == IF x = "" \/ x \in Unsafe THEN "'" \o x \o "'" ELSE x

as_sbatch_flag(key, value) ==
    IF value.t = "bool"
    THEN SbatchBare(Hyphenated[key])
    ELSE SbatchValue(Hyphenated[key], ShlexQuote(PyStr(value)))

(***************************************************************************)
(* Helpers on lists of strings.                                            *)
(***************************************************************************)
RECURSIVE Join(_, _)
\* sep.join(xs)
Join(xs, sep) ==
    IF xs = <<>> THEN ""
    ELSE IF Len(xs) = 1 THEN xs[1]
    ELSE xs[1] \o sep \o Join(Tail(xs), sep)

\* the overrides of the model that start with "hydra."
HydraOverrides == {"hydra.verbose=true"}

\* hydra's filter_overrides: drops the overrides that start with "hydra."
filter_overrides(overrides) ==
    SelectSeq(overrides, LAMBDA x : x \notin HydraOverrides)

\* to_absolute_path(sys.argv[0])
AppPath == "/app/main.py"

build_command(overrides) ==
    LET filtered == filter_overrides(overrides)
        command == "python " \o AppPath \o " hydra.launcher=basic"
    IN  IF filtered # <<>> THEN command \o " " \o Join(filtered, " ") ELSE command

\* os.path.join(a, b) for a relative b
PathJoin(a, b) == a \o "/" \o b

\* [as_sbatch_flag(k, params[k]) for k in params if k not in skip]
Directives(params, skip) ==
    LET kept == SelectSeq(params, LAMBDA e : e.k \notin skip)
    IN  [n \in 1..Len(kept) |-> as_sbatch_flag(kept[n].k, kept[n].v)]

\* {k: v for k, v in vars(config).items() if v is not None and k not in non_slurm}
ConfigParams(c, non_slurm) ==
    LET keys == SelectSeq(ConfigFields,
                          LAMBDA k : k \notin non_slurm /\ c[k] # None)
    IN  [n \in 1..Len(keys) |-> [k |-> keys[n], v |-> c[keys[n]]]]

\* ["# Setup commands" block] if config.setup
SetupLines(c) ==
    IF c.setup # <<>>
    THEN <<TextLine(" "), TextLine("# Setup commands")>>
           \o [n \in 1..Len(c.setup) |-> TextLine(c.setup[n])]
    ELSE <<>>

(***************************************************************************)
(* generate_slurm_script                                                   *)
(***************************************************************************)
SlurmNonSlurm == {"additional", "setup", "_target_", "job_array_name"}

\* the config while the script is rendered: job_name set when it was None
SlurmRenderConf(c, job_name) ==
    IF c.job_name = None THEN [c EXCEPT !.job_name = StrV(job_name)] ELSE c

SlurmParams(c, job_name, output_dir) ==
    LET rc == SlurmRenderConf(c, job_name)
        paths == << [k |-> "output",
                     v |-> StrV(output_dir \o "/" \o PyStr(rc.job_name) \o "_%j.out")],
                    [k |-> "error",
                     v |-> StrV(output_dir \o "/" \o PyStr(rc.job_name) \o "_%j.err")] >>
        params == DictUpdate(ConfigParams(rc, SlurmNonSlurm), paths)
    IN  IF rc.additional # <<>> THEN DictUpdate(params, rc.additional) ELSE params

\* the text of the script generate_slurm_script writes
SlurmScript(c, job_name, output_dir, command) ==
    <<TextLine("#!/bin/bash"), TextLine(" "), TextLine("# SLURM parameters")>>
      \o Directives(SlurmParams(c, job_name, output_dir), {})
      \o SetupLines(SlurmRenderConf(c, job_name))
      \o <<TextLine(" "), TextLine("# Run the command"), TextLine(command)>>

SlurmScriptPath(job_name, output_dir) == PathJoin(output_dir, job_name \o ".sh")

\* config.job_name after generate_slurm_script: restored on a normal return,
\* left as set for the rendering when the write of the script raises
SlurmConfAfter(c, job_name, writeOk) ==
    IF writeOk THEN c ELSE SlurmRenderConf(c, job_name)

(***************************************************************************)
(* generate_array_script                                                   *)
(***************************************************************************)
ArrayNonSlurm ==
    {"additional", "setup", "_target_", "job_name", "job_array_name"}

\* f"0-{array_size-1}"
ArrayRange(array_size) == "0-" \o ToString(array_size - 1)

ArrayParams(c, array_size) ==
    LET paths == << [k |-> "array", v |-> StrV(ArrayRange(array_size))] >>
        params == DictUpdate(ConfigParams(c, ArrayNonSlurm), paths)
    IN  IF c.additional # <<>> THEN DictUpdate(params, c.additional) ELSE params

\* the text of the script generate_array_script writes
ArrayScript(c, array_name, array_size, config_file) ==
    <<TextLine("#!/bin/bash"), TextLine(" "), TextLine("# SLURM parameters"),
      SbatchValue("job-name", array_name),
      SbatchValue("output", "/dev/null"),
      SbatchValue("error", "/dev/null")>>
      \o Directives(ArrayParams(c, array_size), {"output", "error"})
      \o <<LookupStage(config_file)>>
      \o SetupLines(c)
      \o <<TextLine(" "), TextLine("# Run the command"),
           TextLine("python " \o AppPath \o " hydra.launcher=basic $OVERRIDES")>>

ArrayScriptPath(sweep_dir, array_name) ==
    PathJoin(sweep_dir, array_name \o "_array.sh")

(***************************************************************************)
(* The scheduler's submit command.                                         *)
(***************************************************************************)
\* a line of sbatch's stdout, as the tokens line.strip().split() yields
AckLine(job_id) == <<"Submitted", "batch", "job", job_id>>
InfoLine == <<"sbatch:", "lua:", "cluster", "busy">>

\* "Submitted batch job" in line
HasMarker(line) ==
    \E n \in 1..(Len(line) - 2) :
        line[n] = "Submitted" /\ line[n + 1] = "batch" /\ line[n + 2] = "job"

\* the ways the invocation of sbatch ends
SbatchStyles == {"ack", "no_ack", "nonzero", "not_found"}

\* the id the scheduler gives its n-th job
JobId(n) == ToString(554 + n)

\* subprocess.run(["sbatch", script], check=True, stdout=PIPE, text=True):
\* the exception it raises ("" for none) and the stdout it captures
SubprocessRun(style, job_id) ==
    CASE style = "ack" ->
           [raised |-> "", returncode |-> 0, stdout |-> <<InfoLine, AckLine(job_id)>>]
      [] style = "no_ack" ->
           [raised |-> "", returncode |-> 0, stdout |-> <<InfoLine>>]
      [] style = "nonzero" ->
           [raised |-> "CalledProcessError", returncode |-> 1, stdout |-> <<>>]
      [] style = "not_found" ->
           [raised |-> "FileNotFoundError", returncode |-> 127, stdout |-> <<>>]

RECURSIVE ExtractJobId(_, _)
\* the loop over submitted.stdout.splitlines(): the last marked line wins
ExtractJobId(lines, job_id) ==
    IF lines = <<>> THEN job_id
    ELSE ExtractJobId(Tail(lines),
                      IF HasMarker(lines[1])
                      THEN StrV(lines[1][Len(lines[1])])
                      ELSE job_id)

(***************************************************************************)
(* JobReturn                                                               *)
(***************************************************************************)
\* return_value: None, or the dict {"job_id": ...}
NoReturnValue == [is_dict |-> FALSE, job_id |-> None]
JobIdDict(v) == [is_dict |-> TRUE, job_id |-> v]
JobReturn(status, return_value) ==
    [status |-> status, return_value |-> return_value]

(***************************************************************************)
(* submit_job_array: the pure parts                                        *)
(***************************************************************************)
Min(a, b) == IF a < b THEN a ELSE b

\* the length of zip(all_overrides, job_names, output_dirs)
ZipLen(all_overrides, job_names, output_dirs) ==
    Min(Len(all_overrides), Min(Len(job_names), Len(output_dirs)))

\* config_data: one record per element of the zip
ConfigData(all_overrides, job_names, output_dirs) ==
    [n \in 1..ZipLen(all_overrides, job_names, output_dirs) |->
        [ overrides |-> Join(filter_overrides(all_overrides[n]), " "),
          job_name |-> job_names[n],
          output_dir |-> output_dirs[n],
          task_id |-> n - 1 ]]

ArrayConfigFile(sweep_dir, array_name) ==
    PathJoin(sweep_dir, array_name \o "_array_config.json")

\* array_size = len(all_overrides)
ArraySize(all_overrides) == Len(all_overrides)

\* DerivedJobId with an off-by-one fault: the derived id counts the tasks from 1
DerivedJobIdFromOne(array_job_id, i) ==
    IF Truthy(array_job_id)
    THEN StrV(PyStr(array_job_id) \o "_" \o ToString(i + 1))
    ELSE None

\* f"{array_job_id}_{i}" if array_job_id else None
DerivedJobId(array_job_id, i) ==
    IF Truthy(array_job_id)
    THEN StrV(PyStr(array_job_id) \o "_" \o ToString(i))
    ELSE None

\* ExpandCompleted with a fault: the loop stops one task early
ExpandCompletedShort(array_job_id, array_size) ==
    [n \in 1..(array_size - 1) |->
        [status |-> "COMPLETED",
         return_value |-> [is_dict |-> TRUE,
                           job_id |-> IF Truthy(array_job_id)
                                      THEN StrV(PyStr(array_job_id) \o "_"
                                                  \o ToString(n - 1))
                                      ELSE None]]]

\* the returns of the try block: one COMPLETED JobReturn per task
ExpandCompleted(array_job_id, array_size) ==
    [n \in 1..array_size |->
        JobReturn("COMPLETED", JobIdDict(DerivedJobId(array_job_id, n - 1)))]

\* the returns of the except block: one FAILED JobReturn per task
ExpandFailed(array_size) ==
    [n \in 1..array_size |-> JobReturn("FAILED", NoReturnValue)]

\* ArrayCaught with a fault: the try block catches nothing
ArrayCaughtNothing == {}

\* the exceptions the try block of submit_job_array catches
ArrayCaught == {"CalledProcessError"}

(***************************************************************************)
(* submit_job: the pure part after the script is written                   *)
(***************************************************************************)
\* the JobReturn of a submission that did not raise
SubmitJobReturn(run) ==
    IF run.returncode = 0
    THEN LET job_id == ExtractJobId(run.stdout, None)
         IN  JobReturn("COMPLETED",
                       IF Truthy(job_id) THEN JobIdDict(job_id) ELSE NoReturnValue)
    ELSE JobReturn("FAILED", NoReturnValue)

(***************************************************************************)
(* The inputs of the model.                                                *)
(***************************************************************************)
\* hydra.sweep.dir
SweepDir == "multirun"

\* a task: its overrides, and the job name and output directory that
\* load_sweep_config resolves for them
Tasks ==
    { [overrides |-> <<"a=1">>, job_name |-> "app", output_dir |-> "multirun/0"],
      [overrides |-> <<"a=2">>, job_name |-> "app", output_dir |-> "multirun/1"],
      [overrides |-> <<"a=3", "hydra.verbose=true">>, job_name |-> "alt",
       output_dir |-> "multirun/0"] }

SeqsUpTo(S, lo, hi) == UNION {[1..n -> S] : n \in lo..hi}

\* the batches a sweeper hands to launch
Batches == SeqsUpTo(Tasks, 1, MaxTasks)

Column(batch, field) == [n \in 1..Len(batch) |-> batch[n][field]]

\* the keyword arguments of SlurmLauncher(**kwargs) that the launcher runs vary
LauncherKwargs ==
    { [DefaultConf EXCEPT !.job_name = jn, !.job_array_name = an] :
        jn \in {None, StrV("fixed")}, an \in {None, StrV("arr")} }

\* an explicit array range in `additional`, one index past the largest batch
OverrideRange == "0-" \o ToString(MaxTasks)

\* the `additional` and `setup` entries a user may add
ExtraAdditional ==
    << [k |-> "array", v |-> StrV(OverrideRange)],
       [k |-> "constraint", v |-> StrV("a100|v100")],
       [k |-> "exclusive", v |-> BoolV(TRUE)] >>
ExtraSetup == <<"module load cuda">>

\* the keyword arguments the calls of the _core functions vary
CoreKwargs ==
    { [DefaultConf EXCEPT !.job_name = jn, !.job_array_name = an,
                          !.gpus = gp, !.gres = gr,
                          !.additional = IF extra THEN ExtraAdditional ELSE <<>>,
                          !.setup = IF extra THEN ExtraSetup ELSE <<>>] :
        jn \in {None, StrV("fixed")}, an \in {None, StrV("arr")},
        gp \in {None, IntV(2)}, gr \in {None, StrV("gpu:4")},
        extra \in BOOLEAN }

\* the argument lists of a direct call of submit_job_array: each list a
\* prefix of a batch's column, the three lengths chosen independently
Prefix(xs, n) == SubSeq(xs, 1, IF n < Len(xs) THEN n ELSE Len(xs))
ArrayCalls ==
    { [kind |-> "array",
       all_overrides |-> Prefix(Column(b, "overrides"), no),
       job_names |-> Prefix(Column(b, "job_name"), nn),
       output_dirs |-> Prefix(Column(b, "output_dir"), nd)] :
        b \in Batches, no \in 1..MaxTasks, nn \in 0..MaxTasks, nd \in 0..MaxTasks }

(***************************************************************************)
(* State                                                                   *)
(***************************************************************************)
VARIABLES
    kwargs,     \* the keyword arguments the launcher was constructed with
    config,     \* SlurmLauncher.slurm_config, shared by every call
    pc,         \* where the launcher is: idle, or inside a call
    call,       \* the arguments of the call in progress (or of the last one)
    idx,        \* _launch_individual_jobs: tasks submitted so far
    returns,    \* the JobReturns built by the call
    outcome,    \* how the last call ended: "returned" or the exception raised
    responses,  \* how each sbatch invocation of the call ended
    store,      \* file system: descriptor store files, path -> records
    scripts,    \* file system: script files, path -> lines
    jobs,       \* scheduler: number of jobs it has accepted
    pending,    \* scheduler: array members submitted and not yet dispatched
    supplied,   \* per array job id, the batch that the caller supplied
    resolved,   \* what each dispatched array member read from the store
    launches    \* calls made so far

vars ==
    << kwargs, config, pc, call, idx, returns, outcome, responses, store, scripts,
       jobs, pending, supplied, resolved, launches >>

NoCall ==
    [kind |-> "none", all_overrides |-> <<>>, job_names |-> <<>>,
     output_dirs |-> <<>>]

\* SlurmLauncher.__init__: SlurmQueueConf(**kwargs), __post_init__ included
InitWith(kw) ==
    /\ kwargs = kw
    /\ config = IF PostInitRaises(kw) THEN kw ELSE PostInit(kw)
    /\ pc = IF PostInitRaises(kw) THEN "config_error" ELSE "idle"
    /\ call = NoCall
    /\ idx = 0
    /\ returns = <<>>
    /\ outcome = IF PostInitRaises(kw) THEN "ValueError" ELSE "none"
    /\ responses = <<>>
    /\ store = <<>>
    /\ scripts = <<>>
    /\ jobs = 0
    /\ pending = {}
    /\ supplied = <<>>
    /\ resolved = {}
    /\ launches = 0

Init == \E kw \in LauncherKwargs : InitWith(kw)

(***************************************************************************)
(* SlurmLauncher.launch                                                    *)
(***************************************************************************)
\* launch with job_array_name set: _launch_job_array up to its call of
\* submit_job_array
LaunchJobArray(batch) ==
    /\ pc = "idle"
    /\ launches < MaxLaunches
    /\ config.job_array_name # None
    /\ call' = [kind |-> "array",
                all_overrides |-> Column(batch, "overrides"),
                job_names |-> Column(batch, "job_name"),
                output_dirs |-> Column(batch, "output_dir")]
    /\ pc' = "array_store"
    /\ launches' = launches + 1
    /\ returns' = <<>>
    /\ outcome' = "running"
    /\ responses' = <<>>
    /\ UNCHANGED <<kwargs, config, idx, store, scripts, jobs, pending, supplied, resolved>>

\* launch with job_array_name unset: _launch_individual_jobs up to its loop
LaunchIndividualJobs(batch) ==
    /\ pc = "idle"
    /\ launches < MaxLaunches
    /\ config.job_array_name = None
    /\ call' = [kind |-> "individual",
                all_overrides |-> Column(batch, "overrides"),
                job_names |-> Column(batch, "job_name"),
                output_dirs |-> Column(batch, "output_dir")]
    /\ pc' = "individual"
    /\ idx' = 0
    /\ launches' = launches + 1
    /\ returns' = <<>>
    /\ outcome' = "running"
    /\ responses' = <<>>
    /\ UNCHANGED <<kwargs, config, store, scripts, jobs, pending, supplied, resolved>>

(***************************************************************************)
(* submit_job_array, step by step                                          *)
(***************************************************************************)
\* the call ends by raising exc
Raise(exc) ==
    /\ pc' = "idle"
    /\ outcome' = exc

\* lines 71-92: assemble config_data and write it to the descriptor store
WriteStore(writeOk) ==
    /\ pc = "array_store"
    /\ IF writeOk
       THEN /\ store' = (ArrayConfigFile(SweepDir, PyStr(config.job_array_name))
                           :> ConfigData(call.all_overrides, call.job_names,
                                         call.output_dirs)) @@ store
            /\ pc' = "array_script"
            /\ UNCHANGED outcome
       ELSE /\ Raise("OSError")
            /\ UNCHANGED store
    /\ UNCHANGED <<kwargs, config, call, idx, returns, responses, scripts, jobs,
                   pending, supplied, resolved, launches>>

\* lines 95-105: generate_array_script and chmod
GenerateArrayScript(writeOk) ==
    /\ pc = "array_script"
    /\ LET array_name == PyStr(config.job_array_name)
       IN  IF writeOk
           THEN /\ scripts' =
                     (ArrayScriptPath(SweepDir, array_name)
                        :> ArrayScript(config, array_name,
                                       ArraySize(call.all_overrides),
                                       ArrayConfigFile(SweepDir, array_name)))
                     @@ scripts
                /\ pc' = "array_submit"
                /\ UNCHANGED outcome
           ELSE /\ Raise("OSError")
                /\ UNCHANGED scripts
    /\ UNCHANGED <<kwargs, config, call, idx, returns, responses, store, jobs,
                   pending, supplied, resolved, launches>>

\* the array directive of a script as the scheduler reads it: the task
\* indices 0..n of a range "0-n" (no member for a range it cannot parse)
ScriptArrayMembers(script) ==
    LET ends == {n \in 0..(MaxTasks + 1) :
                   \E l \in 1..Len(script) :
                       /\ script[l].kind = "sbatch"
                       /\ script[l].key = "array"
                       /\ script[l].value = "0-" \o ToString(n)}
    IN  UNION {0..n : n \in ends}

\* the descriptor store a script's runtime stage reads
ScriptConfigFile(script) ==
    script[CHOOSE l \in 1..Len(script) : script[l].kind = "lookup"].value

\* the scheduler accepts the array script at path as job job_id
AcceptArray(path, job_id) ==
    /\ jobs' = jobs + 1
    /\ pending' = pending \cup
          { [job |-> job_id, task |-> i,
             config_file |-> ScriptConfigFile(scripts[path])] :
              i \in ScriptArrayMembers(scripts[path]) }
    /\ supplied' = (job_id :> call) @@ supplied

\* lines 108-139: submit the array script and expand the response
SubmitArray(style) ==
    /\ pc = "array_submit"
    /\ LET path == ArrayScriptPath(SweepDir, PyStr(config.job_array_name))
           job_id == JobId(jobs + 1)
           run == SubprocessRun(style, job_id)
           array_size == ArraySize(call.all_overrides)
       IN  /\ responses' = Append(responses, style)
           /\ IF run.returncode = 0
              THEN AcceptArray(path, job_id)
              ELSE UNCHANGED <<jobs, pending, supplied>>
           /\ pc' = "idle"
           /\ IF run.raised = ""
              THEN /\ returns' = ExpandCompleted(ExtractJobId(run.stdout, None),
                                                 array_size)
                   /\ outcome' = "returned"
              ELSE IF run.raised \in ArrayCaught
              THEN /\ returns' = ExpandFailed(array_size)
                   /\ outcome' = "returned"
              ELSE /\ outcome' = run.raised
                   /\ UNCHANGED returns
    /\ UNCHANGED <<kwargs, config, call, idx, store, scripts, resolved, launches>>

(***************************************************************************)
(* The scheduler dispatches a pending array member: the runtime stage of    *)
(* the array script looks the member's index up in the descriptor store.    *)
(***************************************************************************)
\* configs[task_id] if 0 <= task_id < len(configs) else sys.exit(1)
Lookup(configs, task_id) ==
    IF 0 <= task_id /\ task_id < Len(configs)
    THEN [found |-> TRUE,
          overrides |-> configs[task_id + 1].overrides,
          job_name |-> configs[task_id + 1].job_name,
          output_dir |-> configs[task_id + 1].output_dir]
    ELSE [found |-> FALSE, overrides |-> "", job_name |-> "", output_dir |-> ""]

Dispatch(m) ==
    /\ m \in pending
    /\ pending' = pending \ {m}
    /\ resolved' = resolved \cup
          { [job |-> m.job, task |-> m.task,
             read |-> Lookup(IF m.config_file \in DOMAIN store
                             THEN store[m.config_file] ELSE <<>>,
                             m.task)] }
    /\ UNCHANGED <<kwargs, config, pc, call, idx, returns, outcome, responses, store,
                   scripts, jobs, supplied, launches>>

(***************************************************************************)
(* _launch_individual_jobs: one iteration of the loop, a call of submit_job *)
(***************************************************************************)
SubmitJob(writeOk, style) ==
    /\ pc = "individual"
    /\ idx < Len(call.all_overrides)
    /\ LET overrides == call.all_overrides[idx + 1]
           job_name == call.job_names[idx + 1]
           output_dir == call.output_dirs[idx + 1]
           cmd == build_command(overrides)
           run == SubprocessRun(style, JobId(jobs + 1))
           last == idx + 1 = Len(call.all_overrides)
       IN  /\ config' = SlurmConfAfter(config, job_name, writeOk)
           /\ IF ~writeOk
              THEN \* generate_slurm_script raises while writing the script
                   /\ Raise("OSError")
                   /\ UNCHANGED <<scripts, jobs, responses, returns, idx>>
              ELSE /\ scripts' = (SlurmScriptPath(job_name, output_dir)
                                    :> SlurmScript(config, job_name, output_dir, cmd))
                                 @@ scripts
                   /\ responses' = Append(responses, style)
                   /\ jobs' = IF run.returncode = 0 THEN jobs + 1 ELSE jobs
                   /\ IF run.raised # ""
                      THEN \* subprocess.run raises and nothing catches it
                           /\ Raise(run.raised)
                           /\ UNCHANGED <<returns, idx>>
                      ELSE /\ returns' = Append(returns, SubmitJobReturn(run))
                           /\ idx' = idx + 1
                           /\ pc' = IF last THEN "idle" ELSE "individual"
                           /\ outcome' = IF last THEN "returned" ELSE outcome
    /\ UNCHANGED <<kwargs, call, store, pending, supplied, resolved, launches>>

(***************************************************************************)
(* Direct calls of the _core functions, one per behaviour, on a fresh       *)
(* launcher configuration.                                                  *)
(***************************************************************************)
\* submit_job_array(config, all_overrides, job_names, output_dirs, sweep_dir)
CallSubmitJobArray(args) ==
    /\ pc = "idle"
    /\ outcome = "none"
    /\ call' = args
    /\ pc' = "array_store"
    /\ launches' = launches + 1
    /\ outcome' = "running"
    /\ UNCHANGED <<kwargs, config, idx, returns, responses, store, scripts, jobs,
                   pending, supplied, resolved>>

\* generate_slurm_script(config, job_name, output_dir, build_command(overrides))
CallGenerateSlurmScript(task, writeOk) ==
    /\ pc = "idle"
    /\ outcome = "none"
    /\ call' = [kind |-> "script",
                all_overrides |-> <<task.overrides>>,
                job_names |-> <<task.job_name>>,
                output_dirs |-> <<task.output_dir>>]
    /\ config' = SlurmConfAfter(config, task.job_name, writeOk)
    /\ scripts' = IF writeOk
                  THEN (SlurmScriptPath(task.job_name, task.output_dir)
                          :> SlurmScript(config, task.job_name, task.output_dir,
                                         build_command(task.overrides)))
                       @@ scripts
                  ELSE scripts
    /\ outcome' = IF writeOk THEN "returned" ELSE "OSError"
    /\ launches' = launches + 1
    /\ UNCHANGED <<kwargs, pc, idx, returns, responses, store, jobs, pending,
                   supplied, resolved>>

InitCore == \E kw \in CoreKwargs : InitWith(kw)

NextCore ==
    \/ \E args \in ArrayCalls : CallSubmitJobArray(args)
    \/ \E task \in Tasks, writeOk \in BOOLEAN : CallGenerateSlurmScript(task, writeOk)
    \/ \E writeOk \in BOOLEAN : WriteStore(writeOk)
    \/ \E writeOk \in BOOLEAN : GenerateArrayScript(writeOk)
    \/ \E style \in SbatchStyles : SubmitArray(style)

SpecCore == InitCore /\ [][NextCore]_vars

Next ==
    \/ \E batch \in Batches : LaunchJobArray(batch)
    \/ \E batch \in Batches : LaunchIndividualJobs(batch)
    \/ \E writeOk \in BOOLEAN : WriteStore(writeOk)
    \/ \E writeOk \in BOOLEAN : GenerateArrayScript(writeOk)
    \/ \E style \in SbatchStyles : SubmitArray(style)
    \/ \E writeOk \in BOOLEAN, style \in SbatchStyles : SubmitJob(writeOk, style)
    \/ \E m \in pending : Dispatch(m)

Spec == Init /\ [][Next]_vars
(***************************************************************************)
(* Properties                                                              *)
(***************************************************************************)
\* a call of submit_job_array is over
ArrayCallOver == call.kind = "array" /\ pc = "idle"

\* the three lists of the call have the same length N >= 1
ValidBatch ==
    /\ Len(call.all_overrides) >= 1
    /\ Len(call.job_names) = Len(call.all_overrides)
    /\ Len(call.output_dirs) = Len(call.all_overrides)

\* the call invoked sbatch, which ended in the given way
Answered(styles) == responses # <<>> /\ responses[1] \in styles

AllStatus(status) == \A n \in 1..Len(returns) : returns[n].status = status

NoJobIds == \A n \in 1..Len(returns) : returns[n].return_value.job_id = None

\* the id the scheduler gave the array it accepted last
LastJobId == JobId(jobs)

\* C1: for a batch of three lists of the same length N >= 1 and a scheduler
\* that answers with an acknowledged zero exit, an unacknowledged zero exit or
\* a non-zero exit, submit_job_array returns exactly N results, and result i
\* is the one of input task i: where ids are derived, the i-th carries index i.
C1_ExactlyNResultsInOrder ==
    (ArrayCallOver /\ ValidBatch /\ Answered({"ack", "no_ack", "nonzero"}))
      => /\ outcome = "returned"
         /\ Len(returns) = Len(call.all_overrides)
         /\ Answered({"ack"}) =>
              \A n \in 1..Len(call.all_overrides) :
                  returns[n].return_value.job_id.s
                    = LastJobId \o "_" \o ToString(n - 1)

\* C1 witness: a batch of two tasks was submitted and acknowledged
C1_Witness ==
    /\ ArrayCallOver /\ ValidBatch /\ Answered({"ack"})
    /\ Len(call.all_overrides) = 2
    /\ Len(returns) = 2

\* C2: after a zero exit with the acknowledgment line of job J, every result
\* i in [0, N) is COMPLETED with job id "J_i"; after a zero exit without the
\* line every result is COMPLETED (never FAILED) and carries no job id.
C2_DerivedIds ==
    /\ (ArrayCallOver /\ Answered({"ack"}))
         => /\ outcome = "returned"
            /\ DOMAIN returns = 1..Len(call.all_overrides)
            /\ \A n \in DOMAIN returns :
                  /\ returns[n].status = "COMPLETED"
                  /\ returns[n].return_value.job_id
                       = StrV(LastJobId \o "_" \o ToString(n - 1))
    /\ (ArrayCallOver /\ Answered({"no_ack"}))
         => /\ outcome = "returned"
            /\ DOMAIN returns = 1..Len(call.all_overrides)
            /\ AllStatus("COMPLETED")
            /\ NoJobIds

\* C2 witness: the second of two results carries the id "555_1"
C2_Witness ==
    /\ ArrayCallOver /\ Answered({"ack"})
    /\ Len(returns) = 2
    /\ returns[2].return_value.job_id = StrV("555_1")

\* C3: after a non-zero exit all N results are FAILED and none carries a job
\* id; and no returned list mixes COMPLETED and FAILED results.
C3_AllFailedNeverMixed ==
    /\ (ArrayCallOver /\ Answered({"nonzero"}))
         => /\ outcome = "returned"
            /\ Len(returns) = Len(call.all_overrides)
            /\ AllStatus("FAILED")
            /\ NoJobIds
            /\ \A n \in 1..Len(returns) : ~returns[n].return_value.is_dict
    /\ (ArrayCallOver /\ outcome = "returned")
         => AllStatus("COMPLETED") \/ AllStatus("FAILED")

\* C3 witness: a batch of two tasks met a non-zero exit
C3_Witness ==
    /\ ArrayCallOver /\ Answered({"nonzero"})
    /\ Len(call.all_overrides) = 2
    /\ Len(returns) = 2
    /\ returns[1].status = "FAILED"

\* C4: however the invocation of the scheduler binary ends, binary not found
\* included, submit_job_array returns (it does not raise), and when the
\* invocation failed it returns N FAILED results with no id.
C4_NoInvocationErrorPropagates ==
    (ArrayCallOver /\ responses # <<>>)
      => /\ outcome = "returned"
         /\ Len(returns) = Len(call.all_overrides)
         /\ Answered({"nonzero", "not_found"}) => AllStatus("FAILED") /\ NoJobIds

\* C5: in the individual-job path, whatever the exit code of each task's own
\* sbatch invocation, _launch_individual_jobs returns N outcomes in input
\* order, task i FAILED with no job id when its invocation exited non-zero
\* and COMPLETED otherwise: a non-zero exit does not end the loop.
C5_IndividualOutcomePerTask ==
    ( /\ call.kind = "individual"
      /\ pc = "idle"
      /\ outcome # "OSError"
      /\ \A n \in 1..Len(responses) :
            responses[n] \in {"ack", "no_ack", "nonzero"} )
      => /\ outcome = "returned"
         /\ Len(returns) = Len(call.all_overrides)
         /\ \A n \in 1..Len(returns) :
               IF responses[n] = "nonzero"
               THEN /\ returns[n].status = "FAILED"
                    /\ returns[n].return_value.job_id = None
               ELSE returns[n].status = "COMPLETED"

\* the lines of a script that are #SBATCH directives with the given flag
DirectiveLines(script, flag) ==
    {l \in 1..Len(script) :
        script[l].kind \in {"sbatch", "sbatch_flag"} /\ script[l].key = flag}

\* C6: when the launcher was built with `gpus` set (and `gres` unset), gres is
\* "gpu:<gpus>", and no script written by generate_slurm_script or
\* generate_array_script has a `gpus` directive: only the gres directive.
C6_GpusNeverEmitted ==
    (pc # "config_error" /\ kwargs.gpus # None /\ kwargs.gres = None)
      => /\ config.gres = StrV("gpu:" \o ToString(kwargs.gpus.i))
         /\ \A path \in DOMAIN scripts :
               /\ DirectiveLines(scripts[path], "gpus") = {}
               /\ \E l \in DirectiveLines(scripts[path], "gres") :
                     scripts[path][l].value = "gpu:" \o ToString(kwargs.gpus.i)

\* C7: no call of generate_slurm_script, on any exit path, leaves
\* config.job_name different from what it was before the call; so with
\* job_name unset at construction, every individual submission writes a script
\* whose job-name directive is the task's own job_name.
C7_JobNameRestored ==
    [][ /\ config'.job_name = config.job_name
        /\ (pc = "individual" /\ kwargs.job_name = None /\ scripts' # scripts)
             => LET job_name == call.job_names[idx + 1]
                    script == scripts'[SlurmScriptPath(job_name,
                                                       call.output_dirs[idx + 1])]
                IN  /\ DirectiveLines(script, "job-name") # {}
                    /\ \A l \in DirectiveLines(script, "job-name") :
                          script[l].value = job_name ]_vars

\* C8: a dispatched array member with index i of a batch resolves the
\* overrides, job_name and output_dir supplied for task i of that batch,
\* whatever launches happened between its submission and its dispatch.
C8_MemberReadsOwnDescriptor ==
    \A r \in resolved :
        LET batch == supplied[r.job]
        IN  r.task < Len(batch.all_overrides)
              => /\ r.read.found
                 /\ r.read.overrides
                      = Join(filter_overrides(batch.all_overrides[r.task + 1]), " ")
                 /\ r.read.job_name = batch.job_names[r.task + 1]
                 /\ r.read.output_dir = batch.output_dirs[r.task + 1]

\* C9: the array script written for array_size = N has an array directive,
\* and its range is exactly "0-<N-1>", whatever `additional` holds.
C9_ArrayRangeIsComputed ==
    \A path \in DOMAIN scripts :
        ( /\ call.kind = "array"
          /\ ValidBatch
          /\ path = ArrayScriptPath(SweepDir, PyStr(config.job_array_name)) )
          => /\ DirectiveLines(scripts[path], "array") # {}
             /\ \A l \in DirectiveLines(scripts[path], "array") :
                   scripts[path][l].value
                     = "0-" \o ToString(Len(call.all_overrides) - 1)

\* C10: a call of submit_job_array is either rejected during preparation
\* (nothing written to the store, nothing submitted) or the store holds
\* exactly `size` records with task_id 0..size-1 in order, `size` being the
\* bound of the array range and the number of results returned.
C10_StoreCoversArrayRange ==
    (call.kind = "array" /\ pc # "array_store")
      => \/ /\ store = <<>>
            /\ responses = <<>>
            /\ pc = "idle"
            /\ outcome \notin {"running", "returned"}
         \/ LET file == ArrayConfigFile(SweepDir, PyStr(config.job_array_name))
                size == Len(call.all_overrides)
            IN  /\ file \in DOMAIN store
                /\ Len(store[file]) = size
                /\ \A n \in 1..Len(store[file]) : store[file][n].task_id = n - 1
                /\ \A path \in DOMAIN scripts :
                      ScriptArrayMembers(scripts[path]) = 0..(size - 1)
                /\ outcome = "returned" => Len(returns) = size

====
